---- MODULE Spec2Model ----
(***************************************************************************)
(* Funnel scoring and reordering engine of journey-funnel:                  *)
(*   src/mcp_server_fast.py  (assessSteps / manusFunnel, fast server)       *)
(*   src/mcp_server.py       (assessSteps / manusFunnel, standard server)   *)
(*                                                                          *)
(* Python floats are modelled as exact rationals [n, d] in lowest terms,    *)
(* Python dicts as functions from string keys, Python lists as sequences.   *)
(* List positions are 1-based here; step indices keep the source's 0-based  *)
(* values.                                                                  *)
(***************************************************************************)
EXTENDS Integers, Sequences, FiniteSets, TLC

(***************************************************************************)
(* Exact rational arithmetic standing in for Python float arithmetic.       *)
(***************************************************************************)
Abs(x) == IF x < 0 THEN -x ELSE x

RECURSIVE GCD(_, _)
GCD(a, b) == IF b = 0 THEN a ELSE GCD(b, a % b)

Rat(n, d) ==
    LET s == IF d < 0 THEN -1 ELSE 1
        g == GCD(Abs(n), Abs(d))
    IN  [n |-> (s * n) \div g, d |-> (s * d) \div g]

Zero == Rat(0, 1)
One == Rat(1, 1)
Half == Rat(1, 2)

\* sums, products and comparisons cancel common factors first, so that the
\* intermediate integers stay small
RAdd(a, b) ==
    LET g == GCD(a.d, b.d)
    IN  Rat(a.n * (b.d \div g) + b.n * (a.d \div g), (a.d \div g) * b.d)
RNeg(a) == [n |-> -a.n, d |-> a.d]
RSub(a, b) == RAdd(a, RNeg(b))
RMul(a, b) ==
    LET g1 == GCD(Abs(a.n), b.d)
        g2 == GCD(Abs(b.n), a.d)
    IN  IF a.n = 0 \/ b.n = 0 THEN [n |-> 0, d |-> 1]
        ELSE [n |-> (a.n \div g1) * (b.n \div g2),
              d |-> (a.d \div g2) * (b.d \div g1)]
RDiv(a, b) == RMul(a, Rat(b.d, b.n))
RLeq(a, b) ==
    LET g == GCD(a.d, b.d)
    IN  a.n * (b.d \div g) <= b.n * (a.d \div g)
RLt(a, b) ==
    LET g == GCD(a.d, b.d)
    IN  a.n * (b.d \div g) < b.n * (a.d \div g)

(***************************************************************************)
(* Python builtins.                                                         *)
(***************************************************************************)
\* max(a, b) and min(a, b) on numbers
PyMax(a, b) == IF RLt(a, b) THEN b ELSE a
PyMin(a, b) == IF RLt(b, a) THEN b ELSE a

\* dict.get(key, default)
Get(dict, key, default) == IF key \in DOMAIN dict THEN dict[key] ELSE default

\* list(range(n)): the 0-based indices 0 .. n-1
Range(n) == [k \in 1..n |-> k - 1]

\* sum(...) of a sequence of numbers
RECURSIVE RSum(_)
RSum(s) == IF s = <<>> THEN Zero ELSE RAdd(s[1], RSum(Tail(s)))

\* Insertion of record r into a list kept in non-increasing order of r[field];
\* r goes after every element whose key is >= its own (Python's sort is
\* stable, also with reverse=True).
RECURSIVE InsertDesc(_, _, _)
InsertDesc(sorted, r, field) ==
    IF sorted = <<>> THEN <<r>>
    ELSE IF RLeq(r[field], sorted[1][field])
         THEN <<sorted[1]>> \o InsertDesc(Tail(sorted), r, field)
         ELSE <<r>> \o sorted

\* a descending sort that is not stable: an element goes before the elements
\* whose key equals its own, as in sorted(...)[::-1] of an ascending sort
RECURSIVE InsertDescFirst(_, _, _)
InsertDescFirst(sorted, r, field) ==
    IF sorted = <<>> THEN <<r>>
    ELSE IF RLt(r[field], sorted[1][field])
         THEN <<sorted[1]>> \o InsertDescFirst(Tail(sorted), r, field)
         ELSE <<r>> \o sorted

RECURSIVE SortDescTiesReversed(_, _)
SortDescTiesReversed(list, field) ==
    IF list = <<>> THEN <<>>
    ELSE InsertDescFirst(
             SortDescTiesReversed(SubSeq(list, 1, Len(list) - 1), field),
             list[Len(list)], field)

\* list.sort(key=lambda x: x[field], reverse=True) / sorted(..., reverse=True)
RECURSIVE SortDesc(_, _)
SortDesc(list, field) ==
    IF list = <<>> THEN <<>>
    ELSE InsertDesc(SortDesc(SubSeq(list, 1, Len(list) - 1), field),
                    list[Len(list)], field)

(***************************************************************************)
(* Program tables and the records the code synthesizes.                     *)
(***************************************************************************)
EmptyDict == [k \in {} |-> k]

\* FRAMEWORK_FOCUSES: the framework identifiers the fast server knows
FRAMEWORK_FOCUSES ==
    [fw \in {"PAS", "Fogg", "Nielsen", "AIDA", "Cialdini", "SCARF", "JTBD",
             "TOTE", "ELM"} |->
        CASE fw = "PAS" -> "pain points and urgency"
          [] fw = "Fogg" -> "reducing friction"
          [] fw = "Nielsen" -> "usability improvements"
          [] fw = "AIDA" -> "progressive engagement"
          [] fw = "Cialdini" -> "psychological triggers"
          [] fw = "SCARF" -> "trust and safety"
          [] fw = "JTBD" -> "user outcomes"
          [] fw = "TOTE" -> "feedback loops"
          [] fw = "ELM" -> "persuasion depth"]

\* the set of the elements of a list
Elems(list) == {list[k] : k \in DOMAIN list}

\* base_suggestion of create_mock_analysis for framework fw at 0-based step i;
\* an f-string is the tuple of its pieces
MockSuggestion(fw, i) ==
    LET base == [suggestion |-> <<"[Fast] ", fw, " optimization for step ",
                                  ToString(i + 1), ": Focus on ",
                                  FRAMEWORK_FOCUSES[fw]>>,
                 reasoning |-> <<"Based on ", fw, " principles: ",
                                 FRAMEWORK_FOCUSES[fw]>>,
                 confidence |-> Rat(8, 10),
                 estimated_uplift_pp |-> Rat(2, 1)]
    IN  IF fw = "Fogg"
        THEN base @@ [motivation_score |-> Rat(35, 10),
                      trigger_score |-> Rat(3, 1)]
        ELSE base

\* create_mock_analysis: one assessment per step, every requested framework
\* filled in; FRAMEWORK_FOCUSES[framework] raises KeyError for an unknown
\* framework as soon as there is a step to describe
create_mock_analysis(steps, frameworks) ==
    IF steps # <<>> /\ ~(Elems(frameworks) \subseteq DOMAIN FRAMEWORK_FOCUSES)
    THEN [exc |-> "KeyError", assessments |-> <<>>]
    ELSE [exc |-> "none",
          assessments |->
              [p \in 1..Len(steps) |->
                  [stepIndex |-> p - 1,
                   frameworks |-> [fw \in Elems(frameworks) |->
                                      MockSuggestion(fw, p - 1)]]]]

\* the record generate_fast_analysis puts where the provider gave none
FallbackSuggestion(fw) ==
    [suggestion |-> <<"Optimize using ", fw, " principles">>,
     reasoning |-> <<"Apply ", FRAMEWORK_FOCUSES[fw], " to improve conversion">>,
     confidence |-> Rat(7, 10),
     estimated_uplift_pp |-> Rat(15, 10)]

\* generate_fast_analysis, "Fill in missing steps/frameworks": the provider's
\* list is padded to one assessment per step, and each of the first
\* len(steps) assessments gets a record for every requested framework it lacks
FillMissing(raw, steps, frameworks) ==
    LET n == Len(steps)
        len == IF Len(raw) < n THEN n ELSE Len(raw)
        at(p) == IF p <= Len(raw) THEN raw[p]
                 ELSE [stepIndex |-> p - 1, frameworks |-> EmptyDict]
        had(p) == Get(at(p), "frameworks", EmptyDict)
        filled(p) == [fw \in DOMAIN had(p) \cup Elems(frameworks) |->
                         IF fw \in DOMAIN had(p) THEN had(p)[fw]
                         ELSE FallbackSuggestion(fw)]
    IN  [p \in 1..len |->
            IF p <= n
            THEN [k \in DOMAIN at(p) \cup {"frameworks"} |->
                     IF k = "frameworks" THEN filled(p) ELSE at(p)[k]]
            ELSE at(p)]

\* generate_fast_analysis with an OpenAI client, the provider having answered
\* with the assessments list raw; the prompt line FRAMEWORK_FOCUSES[fw] raises
\* KeyError for an unknown framework before the provider is called
generate_fast_analysis(raw, steps, frameworks) ==
    IF ~(Elems(frameworks) \subseteq DOMAIN FRAMEWORK_FOCUSES)
    THEN [exc |-> "KeyError", assessments |-> <<>>]
    ELSE [exc |-> "none", assessments |-> FillMissing(raw, steps, frameworks)]

(***************************************************************************)
(* handle_assess_steps_fast (fast server, tool assessSteps).                *)
(***************************************************************************)
\* assessment["frameworks"].get(framework, {}).get("estimated_uplift_pp", 0)
UpliftPP(assessment, framework) ==
    Get(Get(assessment["frameworks"], framework, EmptyDict),
        "estimated_uplift_pp", Zero)

\* max(-30, min(30, uplift_pp)): the +-30pp policy clamp on one framework's
\* estimate
ClampPP(uplift_pp) == PyMax(Rat(-30, 1), PyMin(Rat(30, 1), uplift_pp))

\* max(0, min(1, cr))
ClampCR(cr) == PyMax(Zero, PyMin(One, cr))

\* avg_uplift of one framework: the mean of its raw estimates over all
\* assessments, 0 when there is none
AvgUplift(assessments, framework) ==
    IF assessments = <<>> THEN Zero
    ELSE RDiv(RSum([k \in DOMAIN assessments |->
                       UpliftPP(assessments[k], framework)]),
              Rat(Len(assessments), 1))

\* next((a for a in assessments if a["stepIndex"] == i), None), as the list
\* of the matches in list order (empty for None)
AssessmentsOf(assessments, i) ==
    SelectSeq(assessments, LAMBDA a : a["stepIndex"] = i)

\* enhanced_step["observedCR"] for the step at 0-based index i: the step's CR
\* plus the framework's clamped uplift when an assessment carries stepIndex i,
\* the step's own observedCR otherwise; read back with default 0.5
EnhancedCR(step, i, assessments, framework) ==
    LET found == AssessmentsOf(assessments, i)
    IN  IF found # <<>>
        THEN ClampCR(RAdd(Get(step, "observedCR", Half),
                          RDiv(ClampPP(UpliftPP(found[1], framework)),
                               Rat(100, 1))))
        ELSE Get(step, "observedCR", Half)

\* the product of a list of numbers, seeded with 1.0 and multiplied left to
\* right
RECURSIVE Product(_)
Product(s) ==
    IF s = <<>> THEN One
    ELSE RMul(Product(SubSeq(s, 1, Len(s) - 1)), s[Len(s)])

\* one entry of order_recommendations
OrderRecommendation(steps, assessments, framework) ==
    [framework |-> framework,
     recommendedOrder |-> Range(Len(steps)),
     expected_CR_total |->
         Product([p \in DOMAIN steps |->
                     EnhancedCR(steps[p], p - 1, assessments, framework)]),
     expectedUplift |-> AvgUplift(assessments, framework)]

\* order_recommendations: one entry per requested framework, then
\* sort(key=expected_CR_total, reverse=True)
OrderRecommendations(steps, frameworks, assessments) ==
    SortDesc([f \in DOMAIN frameworks |->
                 OrderRecommendation(steps, assessments, frameworks[f])],
             "expected_CR_total")

\* avg_uplift of one assessment: the mean of the raw estimates of all its
\* framework entries, 0 when it has none
StepAvgUplift(assessment) ==
    LET entries == Get(assessment, "frameworks", EmptyDict)
        RECURSIVE total(_)
        total(S) == IF S = {} THEN Zero
                    ELSE LET fw == CHOOSE x \in S : TRUE
                         IN  RAdd(Get(entries[fw], "estimated_uplift_pp", Zero),
                                  total(S \ {fw}))
        framework_count == Cardinality(DOMAIN entries)
    IN  IF framework_count > 0
        THEN RDiv(total(DOMAIN entries), Rat(framework_count, 1))
        ELSE Zero

\* ClampedUplift with the lower bound of the clamp at 0 instead of -0.30
ClampedUplift_FlooredAtZero(assessment) ==
    PyMax(Zero,
          PyMin(Rat(30, 100), RDiv(StepAvgUplift(assessment), Rat(100, 1))))

\* clamped_uplift = max(-0.30, min(0.30, avg_uplift / 100))
ClampedUplift(assessment) ==
    PyMax(Rat(-30, 100),
          PyMin(Rat(30, 100), RDiv(StepAvgUplift(assessment), Rat(100, 1))))

\* base_cr_s: CR_s (default 0.5) of the first step whose stepIndex equals
\* the assessment's; a step without stepIndex counts as carrying leak, the
\* value the variable i of the enclosing function holds; 0.5 when no step
\* matches
BaseCR(assessment, steps, leak) ==
    LET step_index == Get(assessment, "stepIndex", 0)
        matches == SelectSeq(steps,
                             LAMBDA s : Get(s, "stepIndex", leak) = step_index)
    IN  IF matches # <<>> THEN Get(matches[1], "CR_s", Half) ELSE Half

\* new_cr_s = max(0, min(1, base_cr_s + clamped_uplift))
NewCR(assessment, steps, leak) ==
    ClampCR(RAdd(BaseCR(assessment, steps, leak), ClampedUplift(assessment)))

\* the framework entries of one assessment as suggestions
Suggestions(assessment) ==
    LET entries == Get(assessment, "frameworks", EmptyDict)
    IN  {[framework |-> fw,
          revisedText |-> Get(entries[fw], "suggestion", <<>>),
          rationale |-> Get(entries[fw], "reasoning", <<>>)] :
            fw \in DOMAIN entries}

\* transformed_assessments: one record per assessment, in the order of the
\* assessments list, cumulative_cr running from 1.0
TransformedAssessments(assessments, steps, leak) ==
    LET cumulative_cr[k \in 0..Len(assessments)] ==
            IF k = 0 THEN One
            ELSE RMul(cumulative_cr[k - 1], NewCR(assessments[k], steps, leak))
    IN  [k \in DOMAIN assessments |->
            [stepIndex |-> Get(assessments[k], "stepIndex", 0),
             base_CR_s |-> BaseCR(assessments[k], steps, leak),
             estimated_uplift |-> ClampedUplift(assessments[k]),
             new_CR_s |-> NewCR(assessments[k], steps, leak),
             cumulative_new_CR_s |-> cumulative_cr[k],
             suggestions |-> Suggestions(assessments[k])]]

\* the result when a handler raises
Raised(exception) == [exc |-> exception]

\* handle_assess_steps_fast after the await, analysis being what
\* generate_fast_analysis returned.  The generator at "Get original step data"
\* reads the loop variable i of the order-recommendation loop: it holds
\* len(steps) - 1 once that loop has run and is unbound (NameError) when no
\* framework was requested.
handle_assess_steps_fast(steps, frameworks, analysis) ==
    LET assessments == analysis.assessments
        leak == Len(steps) - 1
        transformed == TransformedAssessments(assessments, steps, leak)
    IN  IF analysis.exc # "none" THEN Raised(analysis.exc)
        ELSE IF frameworks = <<>> /\ steps # <<>> /\ assessments # <<>>
        THEN Raised("NameError")
        ELSE [exc |-> "none",
              assessments |-> transformed,
              order_recommendations |->
                  OrderRecommendations(steps, frameworks, assessments),
              predicted_CR_total |->
                  IF transformed = <<>> THEN One
                  ELSE transformed[Len(transformed)].cumulative_new_CR_s,
              method |-> "fast_single_call"]

(***************************************************************************)
(* handle_manus_funnel_fast (fast server, tool manusFunnel).                *)
(***************************************************************************)
\* BaselineCR reading the key CR_s where the code reads observedCR
BaselineCR_ReadsCRs(steps) ==
    Product([p \in DOMAIN steps |-> Get(steps[p], "CR_s", Half)])

\* baseline_cr: 1.0 multiplied by every step's observedCR (default 0.5), in
\* input order
BaselineCR(steps) ==
    Product([p \in DOMAIN steps |-> Get(steps[p], "observedCR", Half)])

\* total_uplift of one framework: the sum of its raw estimates over all
\* assessments
TotalUplift(assessments, framework) ==
    RSum([k \in DOMAIN assessments |-> UpliftPP(assessments[k], framework)])

\* the suggestions list of one per-framework variant
VariantSuggestions(assessments, framework, default_confidence) ==
    [k \in DOMAIN assessments |->
        LET framework_data ==
                Get(assessments[k]["frameworks"], framework, EmptyDict)
        IN  [stepIndex |-> assessments[k]["stepIndex"],
             suggestion |-> Get(framework_data, "suggestion", <<>>),
             reasoning |-> Get(framework_data, "reasoning", <<>>),
             confidence |->
                 Get(framework_data, "confidence", default_confidence)]]

\* one per-framework variant: CR_total = baseline_cr * (1 + total_uplift/100)
Variant(steps, baseline_cr, assessments, framework, default_confidence) ==
    LET total_uplift == TotalUplift(assessments, framework)
        suggestions ==
            VariantSuggestions(assessments, framework, default_confidence)
    IN  [framework |-> framework,
         step_order |-> Range(Len(steps)),
         CR_total |-> RMul(baseline_cr,
                           RAdd(One, RDiv(total_uplift, Rat(100, 1)))),
         uplift_pp |-> total_uplift,
         suggestions |-> suggestions,
         confidence |->
             IF suggestions # <<>>
             THEN RDiv(RSum([k \in DOMAIN suggestions |->
                                suggestions[k].confidence]),
                       Rat(Len(suggestions), 1))
             ELSE default_confidence]

\* sc_s = (Qs + Is + Ds) / 3, each defaulting to 2
Complexity(step) ==
    RDiv(RAdd(RAdd(Get(step, "Qs", Rat(2, 1)), Get(step, "Is", Rat(2, 1))),
              Get(step, "Ds", Rat(2, 1))),
         Rat(3, 1))

\* Ability without the lower bound of the clamp, min(5, 6 - sc_s)
Ability_NoFloor(sc_s) == PyMin(Rat(5, 1), RSub(Rat(6, 1), sc_s))

\* ability_score = max(1, min(5, 6 - sc_s))
Ability(sc_s) == PyMax(One, PyMin(Rat(5, 1), RSub(Rat(6, 1), sc_s)))

\* fogg_steps_with_scores: motivation and trigger of step i are the two
\* random.uniform(1, 5) values drawn for it, draws[i + 1]
FoggStepsWithScores(steps, draws) ==
    [p \in DOMAIN steps |->
        LET sc_s == Complexity(steps[p])
        IN  [stepIndex |-> p - 1,
             motivation |-> draws[p].motivation,
             ability |-> Ability(sc_s),
             trigger |-> draws[p].trigger,
             fogg_score |-> RMul(RMul(draws[p].motivation, Ability(sc_s)),
                                 draws[p].trigger),
             complexity |-> sc_s]]

\* FoggRecommendedOrder leaving out the step of the lowest score, as a slice
\* fogg_sorted[:-1] would
FoggRecommendedOrder_DropsLast(fogg_steps_with_scores) ==
    LET fogg_sorted == SortDesc(fogg_steps_with_scores, "fogg_score")
    IN  [k \in 1..(Len(fogg_sorted) - 1) |-> fogg_sorted[k].stepIndex]

\* FoggRecommendedOrder with a sort that reverses the order of equal scores
FoggRecommendedOrder_TiesReversed(fogg_steps_with_scores) ==
    LET fogg_sorted ==
            SortDescTiesReversed(fogg_steps_with_scores, "fogg_score")
    IN  [k \in DOMAIN fogg_sorted |-> fogg_sorted[k].stepIndex]

\* fogg_recommended_order: the stepIndex values of the metrics sorted by
\* fogg_score, reverse=True
FoggRecommendedOrder(fogg_steps_with_scores) ==
    LET fogg_sorted == SortDesc(fogg_steps_with_scores, "fogg_score")
    IN  [k \in DOMAIN fogg_sorted |-> fogg_sorted[k].stepIndex]

max_possible_score == 125

\* FoggOrderUplift with the reordered product taken over reordered_steps[1:],
\* the first step of the recommended order left out
FoggOrderUplift_SkipsFirst(steps, fogg_steps_with_scores, fogg_recommended_order) ==
    LET baseline_cr_total == BaselineCR(steps)
        fogg_cr_total ==
            Product([k \in 1..(Len(fogg_recommended_order) - 1) |->
                        Get(steps[fogg_recommended_order[k + 1] + 1],
                            "observedCR", Half)])
        avg_fogg_score ==
            RDiv(RSum([k \in DOMAIN fogg_steps_with_scores |->
                          fogg_steps_with_scores[k].fogg_score]),
                 Rat(Len(fogg_steps_with_scores), 1))
        fogg_bonus == RMul(RDiv(avg_fogg_score, Rat(max_possible_score, 1)),
                           Rat(15, 10))
    IN  RAdd(RMul(RSub(fogg_cr_total, baseline_cr_total), Rat(100, 1)),
             fogg_bonus)

\* fogg_order_uplift: the CR product in recommended order minus the product
\* in input order, in percentage points, plus the bonus
\* (average fogg_score / 125) * 1.5
FoggOrderUplift(steps, fogg_steps_with_scores, fogg_recommended_order) ==
    LET baseline_cr_total == BaselineCR(steps)
        fogg_cr_total ==
            Product([k \in DOMAIN fogg_recommended_order |->
                        Get(steps[fogg_recommended_order[k] + 1],
                            "observedCR", Half)])
        avg_fogg_score ==
            RDiv(RSum([k \in DOMAIN fogg_steps_with_scores |->
                          fogg_steps_with_scores[k].fogg_score]),
                 Rat(Len(fogg_steps_with_scores), 1))
        fogg_bonus == RMul(RDiv(avg_fogg_score, Rat(max_possible_score, 1)),
                           Rat(15, 10))
    IN  RAdd(RMul(RSub(fogg_cr_total, baseline_cr_total), Rat(100, 1)),
             fogg_bonus)

\* FoggVariant with the CR_total capped at 0.95, the clamp the source removed
FoggVariant_CRCappedAt95(steps, baseline_cr, draws) ==
    LET fogg_steps_with_scores == FoggStepsWithScores(steps, draws)
        fogg_recommended_order == FoggRecommendedOrder(fogg_steps_with_scores)
        fogg_order_uplift ==
            FoggOrderUplift(steps, fogg_steps_with_scores,
                            fogg_recommended_order)
    IN  [framework |-> "Fogg-BM",
         step_order |-> fogg_recommended_order,
         CR_total |-> PyMin(Rat(95, 100),
                            RMul(baseline_cr,
                                 RAdd(One, RDiv(fogg_order_uplift,
                                                Rat(100, 1))))),
         uplift_pp |-> fogg_order_uplift,
         suggestions |-> <<>>,
         fogg_metrics |-> fogg_steps_with_scores,
         confidence |-> Rat(8, 10)]

\* the synthetic Fogg-BM ordering variant
FoggVariant(steps, baseline_cr, draws) ==
    LET fogg_steps_with_scores == FoggStepsWithScores(steps, draws)
        fogg_recommended_order == FoggRecommendedOrder(fogg_steps_with_scores)
        fogg_order_uplift ==
            FoggOrderUplift(steps, fogg_steps_with_scores,
                            fogg_recommended_order)
    IN  [framework |-> "Fogg-BM",
         step_order |-> fogg_recommended_order,
         CR_total |-> RMul(baseline_cr,
                           RAdd(One, RDiv(fogg_order_uplift, Rat(100, 1)))),
         uplift_pp |-> fogg_order_uplift,
         suggestions |-> <<>>,
         fogg_metrics |-> fogg_steps_with_scores,
         confidence |-> Rat(8, 10)]

\* the variants list as built, before it is sorted: one variant per requested
\* framework in request order, then the Fogg-BM variant if "Fogg" was requested
BuiltVariantsFast(steps, frameworks, baseline_cr, assessments, draws) ==
    [f \in DOMAIN frameworks |->
        Variant(steps, baseline_cr, assessments, frameworks[f], Rat(7, 10))]
    \o (IF "Fogg" \in Elems(frameworks)
        THEN <<FoggVariant(steps, baseline_cr, draws)>>
        ELSE <<>>)

\* SortVariants with a sort that reverses the order of equal uplift_pp
SortVariants_TiesReversed(variants) ==
    SortDescTiesReversed(variants, "uplift_pp")

\* variants.sort(key=lambda x: x["uplift_pp"], reverse=True)
SortVariants(variants) == SortDesc(variants, "uplift_pp")

\* handle_manus_funnel_fast after the await; baseline_cr was computed before
\* it.  With "Fogg" requested and no step, the average fogg_score divides by
\* len(fogg_steps_with_scores) = 0 (ZeroDivisionError).
handle_manus_funnel_fast(steps, frameworks, baseline_cr, analysis, draws) ==
    IF analysis.exc # "none" THEN Raised(analysis.exc)
    ELSE IF "Fogg" \in Elems(frameworks) /\ steps = <<>>
    THEN Raised("ZeroDivisionError")
    ELSE [exc |-> "none",
          baselineCR |-> baseline_cr,
          variants |->
              SortVariants(BuiltVariantsFast(steps, frameworks, baseline_cr,
                                             analysis.assessments, draws)),
          method |-> "fast_single_call"]

(***************************************************************************)
(* Standard server (src/mcp_server.py).                                     *)
(***************************************************************************)
\* FRAMEWORKS: framework identifier -> its "focus" text
FRAMEWORKS ==
    [fw \in {"PAS", "Fogg", "Nielsen", "AIDA", "Cialdini", "SCARF", "JTBD",
             "TOTE", "ELM"} |->
        CASE fw = "PAS" -> "emotional triggers and problem-solving"
          [] fw = "Fogg" -> "reducing friction and increasing motivation"
          [] fw = "Nielsen" -> "usability and user experience optimization"
          [] fw = "AIDA" -> "progressive engagement and conversion"
          [] fw = "Cialdini" -> "psychological persuasion triggers"
          [] fw = "SCARF" -> "psychological safety and trust building"
          [] fw = "JTBD" -> "user motivation and outcome achievement"
          [] fw = "TOTE" -> "continuous optimization and user feedback"
          [] fw = "ELM" -> "cognitive processing and persuasion depth"]

\* the mock record of generate_batch_suggestions (no OpenAI client)
MockBatchSuggestion(fw) ==
    [suggestion |-> <<"[Mock] ", fw, " optimization: Improve ", "this step",
                      " with ", FRAMEWORKS[fw]>>,
     reasoning |-> <<"[Mock] Based on ", fw, " principles, focusing on ",
                     FRAMEWORKS[fw]>>,
     confidence |-> Rat(8, 10),
     estimated_uplift_pp |-> Rat(25, 10)]

\* the record generate_batch_suggestions puts where the batch response lacks
\* a framework
BatchFallbackSuggestion(fw) ==
    [suggestion |-> <<fw, " optimization suggestion">>,
     reasoning |-> <<"Based on ", fw, " principles">>,
     confidence |-> Rat(7, 10),
     estimated_uplift_pp |-> Rat(15, 10)]

\* the record generate_batch_suggestions returns for every framework when the
\* provider call raised
BatchErrorSuggestion(fw) ==
    [suggestion |-> <<"Error generating ", fw, " suggestion - using fallback">>,
     reasoning |-> <<"Technical error occurred, using ", fw, " best practices">>,
     confidence |-> Rat(5, 10),
     estimated_uplift_pp |-> Rat(1, 1)]

\* generate_batch_suggestions for one step; outcome is what the provider did:
\* kind "mock" (no client), "llm" (answered with the dict outcome.batch) or
\* "error" (the call raised)
generate_batch_suggestions(frameworks, outcome) ==
    CASE outcome.kind = "mock" ->
            IF Elems(frameworks) \subseteq DOMAIN FRAMEWORKS
            THEN [exc |-> "none",
                  suggestions |-> [fw \in Elems(frameworks) |->
                                      MockBatchSuggestion(fw)]]
            ELSE [exc |-> "KeyError", suggestions |-> EmptyDict]
      [] outcome.kind = "llm" ->
            [exc |-> "none",
             suggestions |->
                 [fw \in DOMAIN outcome.batch \cup Elems(frameworks) |->
                     IF fw \in DOMAIN outcome.batch THEN outcome.batch[fw]
                     ELSE BatchFallbackSuggestion(fw)]]
      [] outcome.kind = "error" ->
            [exc |-> "none",
             suggestions |-> [fw \in Elems(frameworks) |->
                                 BatchErrorSuggestion(fw)]]

\* handle_assess_steps: one assessment per step from its batch suggestions,
\* order_recommendations sorted by expectedUplift, reverse=True
handle_assess_steps(steps, frameworks, outcomes) ==
    LET batch(p) == generate_batch_suggestions(frameworks, outcomes[p])
        assessments ==
            [p \in DOMAIN steps |->
                [stepIndex |-> Get(steps[p], "stepIndex", 0),
                 frameworks |-> batch(p).suggestions,
                 observedCR |-> Get(steps[p], "observedCR", Zero)]]
    IN  IF \E p \in DOMAIN steps : batch(p).exc # "none"
        THEN Raised("KeyError")
        ELSE [exc |-> "none",
              assessments |-> assessments,
              order_recommendations |->
                  SortDesc([f \in DOMAIN frameworks |->
                               [framework |-> frameworks[f],
                                recommendedOrder |-> Range(Len(steps)),
                                expectedUplift |->
                                    AvgUplift(assessments, frameworks[f])]],
                           "expectedUplift"),
              frameworks_used |-> frameworks]

\* baseline_cr of handle_manus_funnel: observedCR defaults to 1.0 here
BaselineCRStd(steps) ==
    Product([p \in DOMAIN steps |-> Get(steps[p], "observedCR", One)])

\* assessment_steps of handle_manus_funnel
AssessmentStepsStd(steps) ==
    [p \in DOMAIN steps |->
        [stepIndex |-> p - 1,
         observedCR |-> Get(steps[p], "observedCR", Half),
         Qs |-> Len(Get(steps[p], "questions", <<>>)),
         Is |-> Get(steps[p], "boosts", 0),
         Ds |-> 0]]

\* handle_manus_funnel: variants from the assessments of handle_assess_steps,
\* sorted by uplift_pp; the closing log line reads variants[0] (IndexError
\* when no framework was requested)
handle_manus_funnel(steps, frameworks, baseline_cr, outcomes) ==
    LET assessments_data ==
            handle_assess_steps(AssessmentStepsStd(steps), frameworks, outcomes)
        variants ==
            SortVariants([f \in DOMAIN frameworks |->
                             Variant(steps, baseline_cr,
                                     assessments_data.assessments,
                                     frameworks[f], Rat(5, 10))])
    IN  IF assessments_data.exc # "none" THEN Raised(assessments_data.exc)
        ELSE IF variants = <<>> THEN Raised("IndexError")
        ELSE [exc |-> "none",
              baselineCR |-> baseline_cr,
              variants |-> variants]

(***************************************************************************)
(* Bounds and the inputs the environment supplies.                          *)
(***************************************************************************)
MaxSteps == 2
MaxFrameworks == 2
\* step complexities are looked at from 0 to MaxThirds / 3
MaxThirds == 21

\* requested framework lists: the lists without repetition of at most
\* MaxFrameworks of these identifiers, in any order
FrameworkIds == {"PAS", "Fogg"}
FrameworkLists ==
    {f \in UNION {[1..n -> FrameworkIds] : n \in 0..MaxFrameworks} :
        \A j, k \in DOMAIN f : f[j] = f[k] => j = k}

\* framework lists as a caller that checks nothing may send them: a known
\* identifier, one outside FRAMEWORK_FOCUSES / FRAMEWORKS, and the empty one
LabelIds == {"PAS", "XYZ", ""}
LabelLists ==
    {f \in UNION {[1..n -> LabelIds] : n \in 0..MaxFrameworks} :
        \A j, k \in DOMAIN f : f[j] = f[k] => j = k}

\* observedCR values; none equals a default the code falls back to
CRValues == {Rat(2, 5), One}

\* The steps of one request share a shape, the fields their caller fills in.
\* Every step carries observedCR.  Question texts are opaque to the engine and
\* left out.
AssessShapes == {"plain", "indexed", "full"}
ManusShapes == {"plain", "QsOnly", "easy", "hard"}

\* the step at 0-based index i with conversion rate cr, in the given shape
Step(shape, i, cr) ==
    CASE shape = "plain" -> [observedCR |-> cr]
      [] shape = "indexed" -> [observedCR |-> cr, stepIndex |-> i]
      [] shape = "full" -> [observedCR |-> cr, stepIndex |-> i, CR_s |-> cr]
      [] shape = "QsOnly" -> [observedCR |-> cr, Qs |-> Rat(3, 1)]
      [] shape = "easy" ->
            [observedCR |-> cr, Qs |-> One, Is |-> One, Ds |-> One]
      [] shape = "hard" ->
            [observedCR |-> cr, Qs |-> Rat(6, 1), Is |-> Rat(6, 1),
             Ds |-> Rat(6, 1)]
      [] shape = "negative" -> [observedCR |-> cr, stepIndex |-> -(i + 1)]

StepLists(shapes) ==
    {[p \in 1..Len(crs) |-> Step(shape, p - 1, crs[p])] :
        shape \in shapes,
        crs \in UNION {[1..n -> CRValues] : n \in 0..MaxSteps}}

\* a suggestion record as the provider returns it
ProviderUplifts == {Rat(-40, 1), Rat(100, 1)}
ProviderSuggestion(uplift_pp) ==
    [suggestion |-> <<"provider text">>,
     reasoning |-> <<"provider reasoning">>,
     confidence |-> Rat(9, 10),
     estimated_uplift_pp |-> uplift_pp]

\* what the provider may say about one step: a record for any subset of the
\* requested frameworks
ProviderRows(frameworks) ==
    UNION {[S -> {ProviderSuggestion(u) : u \in ProviderUplifts}] :
              S \in SUBSET Elems(frameworks)}

\* a provider answer to the fast server: len assessments, the first carrying
\* the row head and the others the row rest, their stepIndex values in list
\* order, reversed, or counted from 1 as the prompt's "Step 1", "Step 2" are
ProviderAnswer(len, order, head, rest) ==
    [p \in 1..len |->
        [stepIndex |-> CASE order = "inorder" -> p - 1
                         [] order = "reversed" -> len - p
                         [] order = "onebased" -> p,
         frameworks |-> IF p = 1 THEN head ELSE rest]]

\* the answers offered to assessSteps hold up to MaxSteps assessments (fewer
\* than, as many as or more than the request's steps), in each order; those
\* offered to manusFunnel have one assessment per step, in order, all with the
\* same row
ProviderAnswers(tool_name, n, frameworks) ==
    IF tool_name = "assessSteps"
    THEN {ProviderAnswer(len, order, head, rest) :
             len \in 0..MaxSteps,
             order \in {"inorder", "reversed", "onebased"},
             head \in ProviderRows(frameworks),
             rest \in ProviderRows(frameworks)}
    ELSE {ProviderAnswer(n, "inorder", row, row) :
             row \in ProviderRows(frameworks)}

\* values random.uniform(1, 5) may return
UniformValues == {One, Rat(5, 1)}
Draws(n) == [1..n -> [motivation : UniformValues, trigger : UniformValues]]

\* per-step provider outcomes of the standard server, openai_client being set:
\* the provider answers every step with the same row, or its call raises
BatchOutcomes(n, frameworks) ==
    {[p \in 1..n |-> IF p \in failing THEN [kind |-> "error"]
                     ELSE [kind |-> "llm", batch |-> row]] :
        failing \in SUBSET (1..n), row \in ProviderRows(frameworks)}

(***************************************************************************)
(* The server process: one request at a time is followed from the tool call *)
(* to the await on the suggestion provider and on to the response.          *)
(***************************************************************************)
VARIABLES
    server,         \* "fast" (mcp_server_fast.py) or "std" (mcp_server.py)
    openai_client,  \* whether the module-level OpenAI client was created
    pc,             \* "idle", "await" (at the provider await) or "done"
    tool,           \* the tool called: "assessSteps", "manusFunnel" or "none"
    steps,          \* arguments["steps"]
    frameworks,     \* arguments["frameworks"]
    baseline_cr,    \* manusFunnel's baseline_cr, computed before the await
    analysis,       \* what the suggestion fetch returned: [exc, assessments]
    draws,          \* the random.uniform values the handler drew, per step
    result,         \* the handler's JSON result, or the exception it raised
    random_state,   \* the state of the random module's process-wide generator
    requests        \* the requests in flight when the server runs several

vars == <<server, openai_client, pc, tool, steps, frameworks, baseline_cr,
          analysis, draws, result, random_state, requests>>

NoAnalysis == [exc |-> "none", assessments |-> <<>>]
NoResult == [exc |-> "pending"]

\* the two requests followed when the event loop runs handlers concurrently
RequestIds == {"a", "b"}

\* a request slot no handler is running in
IdleRequest ==
    [pc |-> "idle", tool |-> "none", steps |-> <<>>, frameworks |-> <<>>,
     baseline_cr |-> One, entered |-> 0, analysis |-> NoAnalysis,
     draws |-> <<>>, result |-> NoResult]

\* the process after the module was imported, with or without OPENAI_API_KEY
InitServer(name) ==
    /\ server = name
    /\ openai_client \in BOOLEAN
    /\ pc = "idle"
    /\ tool = "none"
    /\ steps = <<>>
    /\ frameworks = <<>>
    /\ baseline_cr = One
    /\ analysis = NoAnalysis
    /\ draws = <<>>
    /\ result = NoResult
    /\ random_state = 0
    /\ requests = [r \in RequestIds |-> IdleRequest]

\* a tool call runs its handler up to the await on the suggestion fetch
Call(tool_name, call_steps, call_frameworks, call_baseline) ==
    /\ pc' = "await"
    /\ tool' = tool_name
    /\ steps' = call_steps
    /\ frameworks' = call_frameworks
    /\ baseline_cr' = call_baseline
    /\ UNCHANGED <<server, openai_client, analysis, draws, result,
                   random_state, requests>>

\* handle_call_tool("assessSteps") on the fast server
CallAssessStepsFast ==
    /\ pc = "idle"
    /\ server = "fast"
    /\ \E s \in StepLists(AssessShapes), f \in FrameworkLists :
          Call("assessSteps", s, f, One)

\* handle_call_tool("manusFunnel") on the fast server
CallManusFunnelFast ==
    /\ pc = "idle"
    /\ server = "fast"
    /\ \E s \in StepLists(ManusShapes), f \in FrameworkLists :
          Call("manusFunnel", s, f, BaselineCR(s))

\* handle_call_tool("assessSteps") on the standard server
CallAssessStepsStd ==
    /\ pc = "idle"
    /\ server = "std"
    /\ \E s \in StepLists({"plain", "indexed"}), f \in FrameworkLists :
          Call("assessSteps", s, f, One)

\* handle_call_tool("manusFunnel") on the standard server
CallManusFunnelStd ==
    /\ pc = "idle"
    /\ server = "std"
    /\ \E s \in StepLists({"plain"}), f \in FrameworkLists :
          Call("manusFunnel", s, f, BaselineCRStd(s))

\* handle_call_tool: the dispatcher hands the arguments to the tool's handler
\* as they came; here the steps may carry negative stepIndex values and the
\* framework list unknown or empty identifiers
handle_call_tool ==
    /\ pc = "idle"
    /\ \E name \in {"assessSteps", "manusFunnel"},
          s \in StepLists({"plain", "negative"}), f \in LabelLists :
          Call(name, s, f,
               IF name = "assessSteps" THEN One
               ELSE IF server = "fast" THEN BaselineCR(s)
               ELSE BaselineCRStd(s))

\* the fast handler resumes with the fetched analysis and runs to its return
\* (or to the exception it raises); manusFunnel draws its Fogg scores on the
\* way
ResumeFast(fetched) ==
    /\ pc' = "done"
    /\ analysis' = fetched
    /\ IF tool = "assessSteps"
       THEN /\ draws' = <<>>
            /\ result' = handle_assess_steps_fast(steps, frameworks, fetched)
       ELSE \E d \in (IF "Fogg" \in Elems(frameworks) /\ fetched.exc = "none"
                      THEN Draws(Len(steps)) ELSE {<<>>}) :
               /\ draws' = d
               /\ result' = handle_manus_funnel_fast(steps, frameworks,
                                                     baseline_cr, fetched, d)
    /\ UNCHANGED <<server, openai_client, tool, steps, frameworks, baseline_cr,
                   random_state, requests>>

\* generate_fast_analysis without a client: the mock analysis
FetchMock ==
    /\ pc = "await"
    /\ server = "fast"
    /\ ~openai_client
    /\ ResumeFast(create_mock_analysis(steps, frameworks))

\* generate_fast_analysis with a client: the provider's answer, gaps filled
FetchProvider ==
    /\ pc = "await"
    /\ server = "fast"
    /\ openai_client
    /\ \E raw \in ProviderAnswers(tool, Len(steps), frameworks) :
          ResumeFast(generate_fast_analysis(raw, steps, frameworks))

\* generate_fast_analysis with a client whose call or parse raised: the
\* except branch returns the mock analysis
FetchFailed ==
    /\ pc = "await"
    /\ server = "fast"
    /\ openai_client
    /\ Elems(frameworks) \subseteq DOMAIN FRAMEWORK_FOCUSES
    /\ ResumeFast(create_mock_analysis(steps, frameworks))

\* a standard handler resumes from its awaits on generate_batch_suggestions,
\* which gave the per-step outcomes, and runs to its return: assessSteps is
\* handle_assess_steps on the request's steps, manusFunnel calls it on its
\* assessment_steps
ResumeStd(outcomes) ==
    /\ pc' = "done"
    /\ draws' = <<>>
    /\ LET assessed ==
               handle_assess_steps(IF tool = "assessSteps" THEN steps
                                   ELSE AssessmentStepsStd(steps),
                                   frameworks, outcomes)
       IN  /\ analysis' = IF assessed.exc = "none"
                          THEN [exc |-> "none",
                                assessments |-> assessed.assessments]
                          ELSE [exc |-> assessed.exc, assessments |-> <<>>]
           /\ result' = IF tool = "assessSteps" THEN assessed
                        ELSE handle_manus_funnel(steps, frameworks, baseline_cr,
                                                 outcomes)
    /\ UNCHANGED <<server, openai_client, tool, steps, frameworks, baseline_cr,
                   random_state, requests>>

\* generate_batch_suggestions without a client: mock records for every step
BatchMock ==
    /\ pc = "await"
    /\ server = "std"
    /\ ~openai_client
    /\ ResumeStd([p \in DOMAIN steps |-> [kind |-> "mock"]])

\* generate_batch_suggestions with a client
BatchProvider ==
    /\ pc = "await"
    /\ server = "std"
    /\ openai_client
    /\ \E outcomes \in BatchOutcomes(Len(steps), frameworks) :
          ResumeStd(outcomes)

\* the response leaves; nothing of the request is kept
Respond ==
    /\ pc = "done"
    /\ pc' = "idle"
    /\ tool' = "none"
    /\ steps' = <<>>
    /\ frameworks' = <<>>
    /\ baseline_cr' = One
    /\ analysis' = NoAnalysis
    /\ draws' = <<>>
    /\ result' = NoResult
    /\ UNCHANGED <<server, openai_client, random_state, requests>>

(***************************************************************************)
(* The fast server with two requests in flight.  A handler runs without     *)
(* interruption until an await suspends it: with a client, the await on the *)
(* provider call (asyncio.to_thread); without one, generate_fast_analysis   *)
(* returns the mock at once and the handler runs from call to return in one *)
(* piece.  random.uniform reads and advances the generator of the random    *)
(* module, one per process.                                                 *)
(***************************************************************************)
\* the value random.uniform(1, 5) returns in generator state state; the
\* generator's stream is cut down to three values that repeat
UniformAt(state) ==
    CASE state % 3 = 0 -> One
      [] state % 3 = 1 -> Rat(5, 1)
      [] state % 3 = 2 -> Rat(3, 1)

\* the motivation and trigger scores of n steps drawn one after the other
\* from generator state state on
DrawsFrom(state, n) ==
    [p \in 1..n |->
        [motivation |-> UniformAt(state + 2 * (p - 1)),
         trigger |-> UniformAt(state + 2 * (p - 1) + 1)]]

\* the steps and framework lists of the concurrent requests
ConcurrentSteps ==
    {s \in StepLists({"plain"}) :
        \A p \in DOMAIN s : s[p]["observedCR"] = Rat(2, 5)}
ConcurrentFrameworks == {f \in FrameworkLists : Len(f) = 1}

\* what generate_fast_analysis may return to a request once the provider
\* call is over: the provider's answer (here an empty assessments list, every
\* record filled in) or the mock of the except branch
ConcurrentFetches(request) ==
    {generate_fast_analysis(<<>>, request.steps, request.frameworks),
     create_mock_analysis(request.steps, request.frameworks)}

\* whether the handler of the request reaches the Fogg loop and draws
DrawsScores(request, fetched) ==
    /\ request.tool = "manusFunnel"
    /\ "Fogg" \in Elems(request.frameworks)
    /\ fetched.exc = "none"

\* the result of a fast handler for the request, given the fetched analysis
\* and the generator state its Fogg loop starts from
HandlerResult(request, fetched, state) ==
    IF request.tool = "assessSteps"
    THEN handle_assess_steps_fast(request.steps, request.frameworks, fetched)
    ELSE handle_manus_funnel_fast(
             request.steps, request.frameworks, request.baseline_cr, fetched,
             IF DrawsScores(request, fetched)
             THEN DrawsFrom(state, Len(request.steps)) ELSE <<>>)

\* the request a handler has after reading its arguments, entered in the
\* current generator state
Arrived(name, s, f) ==
    [IdleRequest EXCEPT
        !.pc = "await", !.tool = name, !.steps = s, !.frameworks = f,
        !.baseline_cr = IF name = "manusFunnel" THEN BaselineCR(s) ELSE One,
        !.entered = random_state]

\* request r arrives at a server with a client: its handler runs up to the
\* await on the provider call and is suspended there
ConcurrentCall(r) ==
    /\ requests[r].pc = "idle"
    /\ openai_client
    /\ \E name \in {"assessSteps", "manusFunnel"}, s \in ConcurrentSteps,
          f \in ConcurrentFrameworks :
          requests' = [requests EXCEPT ![r] = Arrived(name, s, f)]
    /\ UNCHANGED <<server, openai_client, pc, tool, steps, frameworks,
                   baseline_cr, analysis, draws, result, random_state>>

\* request r arrives at a server without a client: nothing suspends its
\* handler, which runs to its return on the mock analysis
ConcurrentRun(r) ==
    /\ requests[r].pc = "idle"
    /\ ~openai_client
    /\ \E name \in {"assessSteps", "manusFunnel"}, s \in ConcurrentSteps,
          f \in ConcurrentFrameworks :
          LET request == Arrived(name, s, f)
              fetched == create_mock_analysis(s, f)
              n == IF DrawsScores(request, fetched) THEN Len(s) ELSE 0
          IN  /\ requests' = [requests EXCEPT ![r] =
                     [request EXCEPT
                         !.pc = "done", !.analysis = fetched,
                         !.draws = DrawsFrom(random_state, n),
                         !.result = HandlerResult(request, fetched,
                                                  random_state)]]
              /\ random_state' = (random_state + 2 * n) % 3
    /\ UNCHANGED <<server, openai_client, pc, tool, steps, frameworks,
                   baseline_cr, analysis, draws, result>>

\* the fetch of request r completes and its handler runs to the return,
\* drawing two values per step from the shared generator when it applies the
\* Fogg model
ConcurrentResume(r) ==
    /\ requests[r].pc = "await"
    /\ \E fetched \in ConcurrentFetches(requests[r]) :
          LET n == IF DrawsScores(requests[r], fetched)
                   THEN Len(requests[r].steps) ELSE 0
          IN  /\ requests' = [requests EXCEPT ![r] =
                     [requests[r] EXCEPT
                         !.pc = "done", !.analysis = fetched,
                         !.draws = DrawsFrom(random_state, n),
                         !.result = HandlerResult(requests[r], fetched,
                                                  random_state)]]
              /\ random_state' = (random_state + 2 * n) % 3
    /\ UNCHANGED <<server, openai_client, pc, tool, steps, frameworks,
                   baseline_cr, analysis, draws, result>>

\* the response of request r leaves
ConcurrentRespond(r) ==
    /\ requests[r].pc = "done"
    /\ requests' = [requests EXCEPT ![r] = IdleRequest]
    /\ UNCHANGED <<server, openai_client, pc, tool, steps, frameworks,
                   baseline_cr, analysis, draws, result, random_state>>

\* the generator was seeded from the system at import: any state
InitConcurrent ==
    /\ server = "fast"
    /\ openai_client \in BOOLEAN
    /\ pc = "idle"
    /\ tool = "none"
    /\ steps = <<>>
    /\ frameworks = <<>>
    /\ baseline_cr = One
    /\ analysis = NoAnalysis
    /\ draws = <<>>
    /\ result = NoResult
    /\ random_state \in 0..2
    /\ requests = [r \in RequestIds |-> IdleRequest]
NextConcurrent ==
    \E r \in RequestIds :
        \/ ConcurrentCall(r)
        \/ ConcurrentRun(r)
        \/ ConcurrentResume(r)
        \/ ConcurrentRespond(r)
SpecConcurrent == InitConcurrent /\ [][NextConcurrent]_vars

\* the fast server serving assessSteps
InitAssess == InitServer("fast")
NextAssess ==
    \/ CallAssessStepsFast
    \/ FetchMock
    \/ FetchProvider
    \/ FetchFailed
    \/ Respond
SpecAssess == InitAssess /\ [][NextAssess]_vars

\* manusFunnel on either server
InitManus == \E name \in {"fast", "std"} : InitServer(name)
NextManus ==
    \/ CallManusFunnelFast
    \/ CallManusFunnelStd
    \/ FetchMock
    \/ FetchProvider
    \/ FetchFailed
    \/ BatchMock
    \/ BatchProvider
    \/ Respond
SpecManus == InitManus /\ [][NextManus]_vars

\* both tools on either server
InitServers == \E name \in {"fast", "std"} : InitServer(name)
NextServers ==
    \/ CallAssessStepsFast
    \/ CallAssessStepsStd
    \/ CallManusFunnelFast
    \/ CallManusFunnelStd
    \/ FetchMock
    \/ FetchProvider
    \/ FetchFailed
    \/ BatchMock
    \/ BatchProvider
    \/ Respond
SpecServers == InitServers /\ [][NextServers]_vars

\* both tools on either server, called with arguments nobody checked
InitAnyArguments == \E name \in {"fast", "std"} : InitServer(name)
NextAnyArguments ==
    \/ handle_call_tool
    \/ FetchMock
    \/ FetchProvider
    \/ FetchFailed
    \/ BatchMock
    \/ BatchProvider
    \/ Respond
SpecAnyArguments == InitAnyArguments /\ [][NextAnyArguments]_vars

(***************************************************************************)
(* Properties.                                                              *)
(***************************************************************************)
\* the handler of tool t returned a result (it did not raise)
Returned(t) == pc = "done" /\ tool = t /\ result.exc = "none"

InUnitInterval(x) == RLeq(Zero, x) /\ RLeq(x, One)

\* the product of the steps' observedCR values, the empty product being 1
RECURSIVE ObservedProduct(_)
ObservedProduct(s) ==
    IF s = <<>> THEN One
    ELSE RMul(s[1]["observedCR"], ObservedProduct(Tail(s)))

\* C1: whenever manusFunnel (either server) returns, baselineCR is the
\* product of the observedCR values of the steps in input order, 1 for no
\* step, whatever the frameworks, the suggestions and the Fogg draws were.
C1_BaselineIsObservedProduct ==
    Returned("manusFunnel") => result.baselineCR = ObservedProduct(steps)

\* C1 witness: a returned manusFunnel over two steps of different observedCR
\* with variants built from provider uplifts
C1_Witness ==
    /\ Returned("manusFunnel")
    /\ Len(steps) = 2
    /\ steps[1]["observedCR"] # steps[2]["observedCR"]
    /\ result.baselineCR = Rat(2, 5)
    /\ \E k \in DOMAIN result.variants :
          result.variants[k].uplift_pp = Rat(200, 1)

\* the fetched table holds exactly one assessment per step, in input order
TableInStepOrder ==
    /\ Len(analysis.assessments) = Len(steps)
    /\ \A k \in DOMAIN steps : analysis.assessments[k]["stepIndex"] = k - 1

\* C2: when assessSteps returns for steps carrying observedCR and a table of
\* one assessment per step, it emits one record per step in input order with
\* base_CR_s = the step's observedCR, new_CR_s = clamp(0, 1, base_CR_s +
\* uplift), cumulative_new_CR_s = previous cumulative * new_CR_s from 1.0,
\* and predicted_CR_total = the last cumulative value.
C2_AssessProjectsObservedCR ==
    (Returned("assessSteps") /\ TableInStepOrder) =>
        /\ Len(result.assessments) = Len(steps)
        /\ \A k \in DOMAIN result.assessments :
              LET a == result.assessments[k]
                  previous == IF k = 1 THEN One
                              ELSE result.assessments[k - 1].cumulative_new_CR_s
              IN  /\ a.stepIndex = k - 1
                  /\ a.base_CR_s = steps[k]["observedCR"]
                  /\ a.new_CR_s =
                        ClampCR(RAdd(a.base_CR_s, a.estimated_uplift))
                  /\ a.cumulative_new_CR_s = RMul(previous, a.new_CR_s)
        /\ result.predicted_CR_total =
              IF result.assessments = <<>> THEN One
              ELSE result.assessments[Len(result.assessments)]
                       .cumulative_new_CR_s

\* C3: every record assessSteps returns has estimated_uplift in
\* [-0.30, 0.30] and new_CR_s in [0, 1], and a negative mean of the step's
\* framework estimates gives a negative estimated_uplift.
C3_UpliftAndCRClamped ==
    Returned("assessSteps") =>
        \A k \in DOMAIN result.assessments :
            LET a == result.assessments[k]
            IN  /\ RLeq(Rat(-30, 100), a.estimated_uplift)
                /\ RLeq(a.estimated_uplift, Rat(30, 100))
                /\ InUnitInterval(a.new_CR_s)
                /\ RLt(StepAvgUplift(analysis.assessments[k]), Zero)
                      => RLt(a.estimated_uplift, Zero)

\* C3 witness: one returned record keeps a negative uplift inside the bounds
\* and lowers its CR, another has its uplift cut down to +0.30
C3_Witness ==
    /\ Returned("assessSteps")
    /\ \E k \in DOMAIN result.assessments :
          LET a == result.assessments[k]
          IN  /\ RLt(Rat(-30, 100), a.estimated_uplift)
              /\ RLt(a.estimated_uplift, Zero)
              /\ RLt(a.new_CR_s, a.base_CR_s)
    /\ \E k \in DOMAIN result.assessments :
          /\ RLt(Rat(30, 1), StepAvgUplift(analysis.assessments[k]))
          /\ result.assessments[k].estimated_uplift = Rat(30, 100)

\* mean over the assessment's framework entries of
\* clamp(estimated_uplift_pp, -30, 30) / 100, 0 without entries
MeanOfClampedUplifts(assessment) ==
    LET entries == assessment["frameworks"]
        RECURSIVE total(_)
        total(S) ==
            IF S = {} THEN Zero
            ELSE LET fw == CHOOSE x \in S : TRUE
                 IN  RAdd(RDiv(ClampPP(entries[fw]["estimated_uplift_pp"]),
                               Rat(100, 1)),
                          total(S \ {fw}))
    IN  IF entries = EmptyDict THEN Zero
        ELSE RDiv(total(DOMAIN entries), Rat(Cardinality(DOMAIN entries), 1))

\* C4: the estimated_uplift of every record assessSteps returns is the mean
\* of the step's per-framework estimates, each clamped to [-30, 30] first
\* (0 for a step without entries).
C4_ClampThenAverage ==
    Returned("assessSteps") =>
        \A k \in DOMAIN result.assessments :
            result.assessments[k].estimated_uplift =
                MeanOfClampedUplifts(analysis.assessments[k])

\* the table with every estimated_uplift_pp clamped to [-30, 30]
ClampedTable(assessments) ==
    [k \in DOMAIN assessments |->
        [key \in DOMAIN assessments[k] |->
            IF key = "frameworks"
            THEN [fw \in DOMAIN assessments[k]["frameworks"] |->
                     [field \in DOMAIN assessments[k]["frameworks"][fw] |->
                         IF field = "estimated_uplift_pp"
                         THEN ClampPP(assessments[k]["frameworks"][fw][field])
                         ELSE assessments[k]["frameworks"][fw][field]]]
            ELSE assessments[k][key]]]

\* C5: every per-framework variant manusFunnel returns has the uplift_pp and
\* CR_total it would have had if each estimated_uplift_pp of the table had
\* been replaced by its clamp to [-30, 30].
C5_VariantsUseClampedUplifts ==
    Returned("manusFunnel") =>
        \A k \in DOMAIN result.variants :
            LET v == result.variants[k]
                clamped == Variant(steps, baseline_cr,
                                   ClampedTable(analysis.assessments),
                                   v.framework, Half)
            IN  v.framework # "Fogg-BM" =>
                    /\ v.uplift_pp = clamped.uplift_pp
                    /\ v.CR_total = clamped.CR_total

\* C6: with every observedCR in [0, 1], every total CR a handler returns lies
\* in [0, 1]: baselineCR and each variant's CR_total (manusFunnel),
\* predicted_CR_total and each expected_CR_total (assessSteps).
C6_TotalsInUnitInterval ==
    /\ Returned("manusFunnel") =>
          /\ InUnitInterval(result.baselineCR)
          /\ \A k \in DOMAIN result.variants :
                InUnitInterval(result.variants[k].CR_total)
    /\ Returned("assessSteps") =>
          /\ InUnitInterval(result.predicted_CR_total)
          /\ \A k \in DOMAIN result.order_recommendations :
                InUnitInterval(result.order_recommendations[k]
                                   .expected_CR_total)

\* the place of a variant in the order of building: its framework's place in
\* the request, the Fogg-BM variant after all of them
BuildPlace(variant) ==
    IF variant.framework = "Fogg-BM" THEN Len(frameworks) + 1
    ELSE CHOOSE f \in DOMAIN frameworks : frameworks[f] = variant.framework

\* C7: the variants manusFunnel returns are one per requested framework plus
\* Fogg-BM if "Fogg" was requested, in non-increasing order of uplift_pp,
\* variants of equal uplift_pp in the order they were built.
C7_VariantsSortedStable ==
    Returned("manusFunnel") =>
        /\ {result.variants[k].framework : k \in DOMAIN result.variants} =
              Elems(frameworks)
              \cup (IF server = "fast" /\ "Fogg" \in Elems(frameworks)
                    THEN {"Fogg-BM"} ELSE {})
        /\ \A p, q \in DOMAIN result.variants :
              p < q =>
                  \/ RLt(result.variants[q].uplift_pp,
                         result.variants[p].uplift_pp)
                  \/ /\ result.variants[q].uplift_pp =
                           result.variants[p].uplift_pp
                     /\ BuildPlace(result.variants[p]) <
                           BuildPlace(result.variants[q])

\* C7 witness: three variants returned, the Fogg-BM variant tied with a
\* framework's variant and a third variant ahead of both
C7_Witness ==
    /\ Returned("manusFunnel")
    /\ Len(result.variants) = 3
    /\ RLt(result.variants[2].uplift_pp, result.variants[1].uplift_pp)
    /\ result.variants[2].uplift_pp = result.variants[3].uplift_pp
    /\ result.variants[3].framework = "Fogg-BM"

\* list is a permutation of 0 .. n-1
IsPermutation(list, n) ==
    /\ Len(list) = n
    /\ \A i \in 0..(n - 1) : \E k \in DOMAIN list : list[k] = i

\* C8: the step_order of every variant manusFunnel returns is a permutation
\* of 0..N-1, the identity for the per-framework variants.
C8_StepOrderIsPermutation ==
    Returned("manusFunnel") =>
        \A k \in DOMAIN result.variants :
            /\ IsPermutation(result.variants[k].step_order, Len(steps))
            /\ result.variants[k].framework # "Fogg-BM" =>
                  result.variants[k].step_order = Range(Len(steps))

\* C8 witness: a Fogg-BM variant whose step_order moves the last of two
\* steps to the front
C8_Witness ==
    /\ Returned("manusFunnel")
    /\ \E k \in DOMAIN result.variants :
          /\ result.variants[k].framework = "Fogg-BM"
          /\ result.variants[k].step_order = <<1, 0>>

\* the Fogg-BM variants of the result
FoggVariants ==
    {result.variants[k] : k \in
        {j \in DOMAIN result.variants :
            result.variants[j].framework = "Fogg-BM"}}

\* C9: in the recommended order of the Fogg-BM variant, a step placed
\* earlier has a greater fogg_score than one placed later, or the same
\* fogg_score and a smaller index.
C9_RecommendedOrderByScore ==
    Returned("manusFunnel") =>
        \A v \in FoggVariants :
            \A p, q \in DOMAIN v.step_order :
                p < q =>
                    LET sp == v.fogg_metrics[v.step_order[p] + 1].fogg_score
                        sq == v.fogg_metrics[v.step_order[q] + 1].fogg_score
                    IN  \/ RLt(sq, sp)
                        \/ sp = sq /\ v.step_order[p] < v.step_order[q]

\* C9 witness: a Fogg-BM variant over two steps of equal fogg_score
C9_Witness ==
    /\ Returned("manusFunnel")
    /\ \E v \in FoggVariants :
          /\ Len(v.step_order) = 2
          /\ v.fogg_metrics[1].fogg_score = v.fogg_metrics[2].fogg_score

\* the score field of the Fogg suggestion record of step i, clamped to
\* [1, 5]; 3.0 when the table has no such record or the record no such field
RecordScore(i, field) ==
    LET found == AssessmentsOf(analysis.assessments, i)
        record == IF found = <<>> THEN EmptyDict
                  ELSE Get(found[1]["frameworks"], "Fogg", EmptyDict)
    IN  PyMax(One, PyMin(Rat(5, 1), Get(record, field, Rat(3, 1))))

\* C10: the motivation and trigger in fogg_metrics are the motivation_score
\* and trigger_score of the step's Fogg suggestion record clamped to [1, 5],
\* 3.0 each where the record has none, and fogg_score is computed from them.
C10_FoggScoresFromRecord ==
    Returned("manusFunnel") =>
        \A v \in FoggVariants :
            \A k \in DOMAIN v.fogg_metrics :
                LET m == v.fogg_metrics[k]
                IN  /\ m.motivation = RecordScore(m.stepIndex, "motivation_score")
                    /\ m.trigger = RecordScore(m.stepIndex, "trigger_score")
                    /\ m.fogg_score =
                          RMul(RMul(RecordScore(m.stepIndex, "motivation_score"),
                                    m.ability),
                               RecordScore(m.stepIndex, "trigger_score"))

\* C11: when manusFunnel returns for exactly one step with "Fogg" requested,
\* the Fogg-BM variant has step_order = [0], uplift_pp = 0 and CR_total equal
\* to baselineCR.
C11_SingleStepFoggIsNeutral ==
    (Returned("manusFunnel") /\ server = "fast" /\ Len(steps) = 1
        /\ "Fogg" \in Elems(frameworks)) =>
        /\ FoggVariants # {}
        /\ \A v \in FoggVariants :
              /\ v.step_order = <<0>>
              /\ v.uplift_pp = Zero
              /\ v.CR_total = result.baselineCR

\* C12: manusFunnel called with no step and "Fogg" among the frameworks does
\* not raise; it returns baselineCR = 1.0 and a Fogg-BM variant with an empty
\* step_order and uplift_pp = 0.
C12_ZeroStepsFoggReturns ==
    (pc = "done" /\ tool = "manusFunnel" /\ server = "fast" /\ steps = <<>>
        /\ "Fogg" \in Elems(frameworks)) =>
        /\ result.exc = "none"
        /\ result.baselineCR = One
        /\ \E v \in FoggVariants :
              v.step_order = <<>> /\ v.uplift_pp = Zero

\* C13: a call of either tool on either server with an empty framework list
\* does not raise, whatever the steps; manusFunnel returns the baseline and an
\* empty variants list, assessSteps its per-step records and an empty
\* order_recommendations list.
C13_NoFrameworksReturns ==
    (pc = "done" /\ frameworks = <<>>) =>
        /\ result.exc = "none"
        /\ tool = "manusFunnel" =>
              /\ result.baselineCR = ObservedProduct(steps)
              /\ result.variants = <<>>
        /\ tool = "assessSteps" =>
              /\ "assessments" \in DOMAIN result
              /\ result.order_recommendations = <<>>

\* C14: the table the fast server hands on after normalizing a provider
\* response holds, for every step index 0..N-1 and every requested framework,
\* a record attached to that step index, and every record the provider did not
\* give is the fallback: text naming the framework, confidence 0.7,
\* estimated_uplift_pp 1.5.
C14_NormalizedTableComplete ==
    (pc = "done" /\ server = "fast" /\ openai_client /\ analysis.exc = "none"
        /\ analysis # create_mock_analysis(steps, frameworks)) =>
        /\ \A i \in 0..(Len(steps) - 1), fw \in Elems(frameworks) :
              \E k \in DOMAIN analysis.assessments :
                  /\ analysis.assessments[k]["stepIndex"] = i
                  /\ fw \in DOMAIN analysis.assessments[k]["frameworks"]
        /\ \A k \in DOMAIN analysis.assessments :
              \A fw \in DOMAIN analysis.assessments[k]["frameworks"] :
                  LET record == analysis.assessments[k]["frameworks"][fw]
                  IN  \/ record \in {ProviderSuggestion(u) :
                                        u \in ProviderUplifts}
                      \/ /\ fw \in Elems(record.suggestion)
                         /\ record.confidence = Rat(7, 10)
                         /\ record.estimated_uplift_pp = Rat(15, 10)

\* C15: a call of either tool that requests the unknown framework "XYZ" does
\* not raise; the table holds, for every step, a suggestion for "XYZ" whose
\* text names it, and the result has a variant (manusFunnel) or an order
\* recommendation (assessSteps) for "XYZ".
C15_UnknownFrameworkIsOpaqueLabel ==
    (pc = "done" /\ "XYZ" \in Elems(frameworks)) =>
        /\ result.exc = "none"
        /\ Len(analysis.assessments) >= Len(steps)
        /\ \A k \in DOMAIN analysis.assessments :
              /\ "XYZ" \in DOMAIN analysis.assessments[k]["frameworks"]
              /\ "XYZ" \in Elems(analysis.assessments[k]["frameworks"]["XYZ"]
                                     .suggestion)
        /\ tool = "manusFunnel" =>
              \E k \in DOMAIN result.variants :
                  result.variants[k].framework = "XYZ"
        /\ tool = "assessSteps" =>
              \E k \in DOMAIN result.order_recommendations :
                  result.order_recommendations[k].framework = "XYZ"

\* the request carries a negative step index or an empty framework identifier
Malformed ==
    \/ \E p \in DOMAIN steps :
          "stepIndex" \in DOMAIN steps[p] /\ steps[p]["stepIndex"] < 0
    \/ "" \in Elems(frameworks)

\* C16: a request with a negative step index or an empty framework
\* identifier is rejected: its handler never ends in a result record.
C16_MalformedRequestRejected ==
    (pc = "done" /\ Malformed) => result.exc # "none"

\* the draws random.uniform may hand to an invocation with the request's
\* inputs
PossibleDraws ==
    IF "Fogg" \in Elems(frameworks) THEN Draws(Len(steps)) ELSE {<<>>}

\* C17: the result of manusFunnel is a function of steps, frameworks and the
\* suggestion table: any other invocation of the handler with the same three
\* returns the same baselineCR and the same variants.
C17_ManusFunnelIsPure ==
    (Returned("manusFunnel") /\ server = "fast") =>
        \A d \in PossibleDraws :
            LET again == handle_manus_funnel_fast(steps, frameworks,
                                                  BaselineCR(steps), analysis, d)
            IN  /\ again.exc = "none"
                /\ again.baselineCR = result.baselineCR
                /\ again.variants = result.variants

\* what the handler of the request returns when no other request runs
\* between its arrival and its return: the generator is in the state the
\* request found it in
AloneResult(request) ==
    HandlerResult(request, request.analysis, request.entered)

\* C18: whatever the interleaving of the concurrent requests, every request
\* gets the result it would get running alone.
C18_ConcurrentRequestsIndependent ==
    \A r \in RequestIds :
        requests[r].pc = "done" =>
            requests[r].result = AloneResult(requests[r])

\* the product over the steps of clamp(0, 1, observedCR + clamp(uplift of
\* framework fw on the step, -30, 30) / 100), the table holding one
\* assessment per step in list order
ExpectedCRTotal(fw) ==
    Product([p \in DOMAIN steps |->
                ClampCR(RAdd(steps[p]["observedCR"],
                             RDiv(ClampPP(UpliftPP(analysis.assessments[p], fw)),
                                  Rat(100, 1))))])

\* C19: when assessSteps returns (either server) on a table of one assessment
\* per step, order_recommendations holds exactly one entry per requested
\* framework, each with expectedUplift and with expected_CR_total equal to
\* the product of the steps' clamped uplifted rates for that framework, and
\* the list is in non-increasing order of expected_CR_total.
C19_OrderRecommendationsByExpectedCR ==
    (Returned("assessSteps") /\ Len(analysis.assessments) = Len(steps)
        /\ (server = "fast" => TableInStepOrder)) =>
        LET recs == result.order_recommendations
        IN  /\ Len(recs) = Len(frameworks)
            /\ \A f \in DOMAIN frameworks :
                  \E k \in DOMAIN recs : recs[k].framework = frameworks[f]
            /\ \A k \in DOMAIN recs :
                  /\ "expectedUplift" \in DOMAIN recs[k]
                  /\ "expected_CR_total" \in DOMAIN recs[k]
                  /\ recs[k].expected_CR_total =
                        ExpectedCRTotal(recs[k].framework)
            /\ \A j, k \in DOMAIN recs :
                  j < k => RLeq(recs[k].expected_CR_total,
                                recs[j].expected_CR_total)

\* clamp(1, 5, 6 - sc_s) written out by cases
AbilityByCases(sc_s) ==
    IF RLeq(sc_s, One) THEN Rat(5, 1)
    ELSE IF RLeq(Rat(5, 1), sc_s) THEN One
    ELSE RSub(Rat(6, 1), sc_s)

\* C20: ability = clamp(1, 5, 6 - SC_s).  Over the complexities 0, 1/3, ...,
\* MaxThirds/3 the ability lies in [1, 5], is 5 up to SC_s = 1 and 1 from
\* SC_s = 5 on, and never rises when SC_s rises (a fact about the function,
\* stated in the states with no request in flight); in every Fogg-BM variant
\* returned, each step's ability is that function of its complexity (the mean
\* of its Qs, Is, Ds) and fogg_score = motivation * ability * trigger lies in
\* [1, 125].
C20_AbilityClampedMonotone ==
    /\ pc = "idle" =>
          \A k \in 0..MaxThirds :
              /\ Ability(Rat(k, 3)) = AbilityByCases(Rat(k, 3))
              /\ RLeq(One, Ability(Rat(k, 3)))
              /\ RLeq(Ability(Rat(k, 3)), Rat(5, 1))
              /\ k < MaxThirds =>
                    RLeq(Ability(Rat(k + 1, 3)), Ability(Rat(k, 3)))
    /\ Returned("manusFunnel") =>
          \A v \in FoggVariants :
              \A p \in DOMAIN v.fogg_metrics :
                  LET m == v.fogg_metrics[p]
                  IN  /\ m.complexity = Complexity(steps[p])
                      /\ m.ability = AbilityByCases(m.complexity)
                      /\ RLeq(One, m.ability) /\ RLeq(m.ability, Rat(5, 1))
                      /\ m.fogg_score =
                            RMul(RMul(m.motivation, m.ability), m.trigger)
                      /\ RLeq(One, m.fogg_score)
                      /\ RLeq(m.fogg_score, Rat(125, 1))

\* C20 witness: a Fogg-BM variant of two steps of complexity 5 or more, one
\* with ability 1 and the lowest fogg_score 1, the other with a higher score
C20_Witness ==
    /\ Returned("manusFunnel")
    /\ \E v \in FoggVariants :
          /\ Len(v.fogg_metrics) = 2
          /\ RLeq(Rat(5, 1), v.fogg_metrics[1].complexity)
          /\ v.fogg_metrics[1].ability = One
          /\ v.fogg_metrics[1].fogg_score = One
          /\ RLt(One, v.fogg_metrics[2].fogg_score)

\* the product of observedCR over the steps taken in the given order of
\* 0-based step indexes
RECURSIVE OrderedProduct(_)
OrderedProduct(order) ==
    IF order = <<>> THEN One
    ELSE RMul(steps[order[1] + 1]["observedCR"], OrderedProduct(Tail(order)))

\* the confidence bonus of a Fogg-BM variant: (average fogg_score / 125) * 1.5
ConfidenceBonus(v) ==
    RMul(RDiv(RDiv(RSum([k \in DOMAIN v.fogg_metrics |->
                            v.fogg_metrics[k].fogg_score]),
                   Rat(Len(v.fogg_metrics), 1)),
              Rat(125, 1)),
         Rat(3, 2))

\* x capped to [-30, 30]
CappedPP(x) ==
    IF RLt(Rat(30, 1), x) THEN Rat(30, 1)
    ELSE IF RLt(x, Rat(-30, 1)) THEN Rat(-30, 1)
    ELSE x

\* C21: the uplift_pp of the Fogg-BM variant equals (product of observedCR in
\* recommended order - product of observedCR in input order) * 100 plus
\* (average fogg_score / 125) * 1.5, capped to [-30, 30], and its CR_total
\* equals baselineCR * (1 + uplift_pp / 100), not clamped any further (it
\* may exceed 1).
C21_FoggUpliftAndCRTotal ==
    Returned("manusFunnel") =>
        \A v \in FoggVariants :
            /\ v.uplift_pp =
                  CappedPP(RAdd(RMul(RSub(OrderedProduct(v.step_order),
                                          ObservedProduct(steps)),
                                     Rat(100, 1)),
                                ConfidenceBonus(v)))
            /\ v.CR_total =
                  RMul(result.baselineCR,
                       RAdd(One, RDiv(v.uplift_pp, Rat(100, 1))))

\* C21 witness: a Fogg-BM variant whose CR_total exceeds 1, over two steps
\* of observedCR 1 each carrying the highest scores
C21_Witness ==
    /\ Returned("manusFunnel")
    /\ Len(steps) = 2
    /\ \E v \in FoggVariants :
          /\ v.uplift_pp = Rat(3, 2)
          /\ result.baselineCR = One
          /\ v.CR_total = Rat(203, 200)

\* SC_s as the mean of Qs, Is and Ds with an absent field counted as 0
ComplexityAbsentAsZero(step) ==
    RDiv(RAdd(RAdd(Get(step, "Qs", Zero), Get(step, "Is", Zero)),
              Get(step, "Ds", Zero)),
         Rat(3, 1))

\* C22: in the fogg_metrics of the Fogg-BM variant, the complexity of a step
\* is the mean of its Qs, Is and Ds with every absent field counted as 0, and
\* its ability is clamp(1, 5, 6 - complexity): a step declaring none of the
\* three has complexity 0 and ability 5, a step declaring only Qs = 3 has
\* complexity 1.
C22_AbsentComplexityInputsAreZero ==
    Returned("manusFunnel") =>
        \A v \in FoggVariants :
            \A p \in DOMAIN v.fogg_metrics :
                LET m == v.fogg_metrics[p]
                    declared == DOMAIN steps[p] \cap {"Qs", "Is", "Ds"}
                IN  /\ m.complexity = ComplexityAbsentAsZero(steps[p])
                    /\ m.ability = AbilityByCases(m.complexity)
                    /\ declared = {} =>
                          m.complexity = Zero /\ m.ability = Rat(5, 1)
                    /\ (declared = {"Qs"} /\ steps[p]["Qs"] = Rat(3, 1)) =>
                          m.complexity = One

\* the orders a recommendation over n steps can be: the permutations of
\* 0 .. n-1 as sequences
StepOrders(n) == {order \in [1..n -> 0..(n - 1)] : IsPermutation(order, n)}

\* C23: whenever manusFunnel returns a Fogg-BM variant for N >= 1 steps, the
\* product of observedCR taken in its recommended order, and in any other
\* permutation of the steps, equals the product in input order, so the
\* reorder contributes 0pp: uplift_pp is the confidence bonus
\* (average fogg_score / 125) * 1.5 alone, a function of the scores and not
\* of the order, and lies in [0.012, 1.5], above zero.  The products are
\* taken in exact arithmetic; in binary floating point the two products
\* agree up to the rounding of the last digit.
C23_ReorderContributesNothing ==
    (Returned("manusFunnel") /\ Len(steps) >= 1) =>
        \A v \in FoggVariants :
            /\ OrderedProduct(v.step_order) = ObservedProduct(steps)
            /\ \A order \in StepOrders(Len(steps)) :
                  OrderedProduct(order) = result.baselineCR
            /\ v.uplift_pp = ConfidenceBonus(v)
            /\ RLeq(Rat(12, 1000), v.uplift_pp)
            /\ RLeq(v.uplift_pp, Rat(3, 2))
            /\ RLt(Zero, v.uplift_pp)

\* C23 witness: a Fogg-BM variant that moves the second of two steps of
\* different observedCR to the front, with an uplift_pp strictly inside
\* (0.012, 1.5)
C23_Witness ==
    /\ Returned("manusFunnel")
    /\ Len(steps) = 2
    /\ steps[1]["observedCR"] # steps[2]["observedCR"]
    /\ \E v \in FoggVariants :
          /\ v.step_order = <<1, 0>>
          /\ RLt(Rat(12, 1000), v.uplift_pp)
          /\ RLt(v.uplift_pp, Rat(3, 2))

\* exactly one framework is requested and the suggestion table has one
\* record per step, in step order, each with an entry for that framework
\* and no other
SingleFrameworkTable ==
    /\ Len(frameworks) = 1
    /\ Len(analysis.assessments) = Len(steps)
    /\ \A k \in DOMAIN analysis.assessments :
          /\ Get(analysis.assessments[k], "stepIndex", 0) = k - 1
          /\ DOMAIN Get(analysis.assessments[k], "frameworks", EmptyDict)
                = {frameworks[1]}

\* C24: when the fast assessSteps returns for exactly one requested framework
\* and a suggestion table that has, for every step, an entry for that
\* framework only, predicted_CR_total (the per-step averaged projection)
\* equals the expected_CR_total of that framework's order recommendation,
\* for every list of steps carrying observedCR.
C24_SingleFrameworkModesAgree ==
    (Returned("assessSteps") /\ server = "fast" /\ SingleFrameworkTable) =>
        /\ Len(result.order_recommendations) = 1
        /\ result.order_recommendations[1].framework = frameworks[1]
        /\ result.predicted_CR_total =
              result.order_recommendations[1].expected_CR_total

====
